---- MODULE Spec2Model ----
(***************************************************************************)
(* Whole-word masking of one tokenized caption, as performed by one        *)
(* iteration of WordMaskingDataset.__iter__                                *)
(* (viswsl/data/datasets/word_masking_dataset.py).                         *)
(*                                                                         *)
(* Python lists are modelled as functions over 0 .. len-1 so that every    *)
(* index in the model is the index of the source.  Probabilities are       *)
(* multiples of 1/ProbDen, the mask proportion a multiple of 1/PropDen.    *)
(***************************************************************************)
EXTENDS Integers, FiniteSets, Sequences, TLC

\* ------------------------------------------------------------------------
\* Bounds of the model.
\* ------------------------------------------------------------------------
MaxCaption == 5     \* longest tokenized caption ([SOS] ... [EOS]) in the LMDB
PropDen == 2        \* mask_proportion ranges over 1/PropDen .. PropDen/PropDen
ProbDen == 2        \* probabilities and random.random() are multiples of 1/ProbDen

\* ------------------------------------------------------------------------
\* Vocabulary / tokenizer (collaborators; surface strings are sequences of
\* characters, a special token being one reserved symbol).
\* ------------------------------------------------------------------------
SP_SPACE == "_"

Vocabulary ==
    << <<"<pad>">>, <<"<unk>">>, <<"[SOS]">>, <<"[EOS]">>, <<"[MASK]">>,
       <<SP_SPACE, "a">>, <<"b">> >>

special_tokens == { <<"<pad>">>, <<"<unk>">>, <<"[SOS]">>, <<"[EOS]">>, <<"[MASK]">> }

VocabIndices == 0 .. (Len(Vocabulary) - 1)

get_token_from_index(idx) == Vocabulary[idx + 1]

get_index_from_token(tok) == CHOOSE idx \in VocabIndices : get_token_from_index(idx) = tok

special_indices == { idx \in VocabIndices : get_token_from_index(idx) \in special_tokens }

pad_index == get_index_from_token(<<"<pad>">>)
unk_index == get_index_from_token(<<"<unk>">>)
sos_index == get_index_from_token(<<"[SOS]">>)
eos_index == get_index_from_token(<<"[EOS]">>)
mask_index == get_index_from_token(<<"[MASK]">>)

startswith(tok, prefix) == Len(tok) >= 1 /\ tok[1] = prefix

\* ------------------------------------------------------------------------
\* Python helpers.
\* ------------------------------------------------------------------------
len(lst) == Cardinality(DOMAIN lst)

EmptyList == [p \in {} |-> 0]

\* lst[:n] for n >= 0
Slice(lst, n) == [p \in { q \in DOMAIN lst : q < n } |-> lst[p]]

\* math.ceil(num / den) for den > 0
Ceil(num, den) == -((-num) \div den)

\* list(range(1, n - 1))
Candidates(n) == { p \in 0 .. (n - 1) : 1 <= p /\ p < n - 1 }

\* Tokens the tokenizer can put between [SOS] and [EOS].
InteriorTokens == (VocabIndices \ special_indices) \cup {unk_index}

\* datapoint["caption_tokens"]: [SOS] t1 .. tn [EOS]
Datapoints ==
    UNION { { [p \in 0 .. (n - 1) |->
                 IF p = 0 THEN sos_index
                 ELSE IF p = n - 1 THEN eos_index ELSE body[p]]
              : body \in [1 .. (n - 2) -> InteriorTokens] }
            : n \in 2 .. MaxCaption }

VARIABLES
    pc,                  \* position in __init__ / __iter__
    _mask_proportion,    \* numerator over PropDen
    _mask_prob,          \* numerator over ProbDen
    _repl_prob,          \* numerator over ProbDen
    max_caption_length,
    caption,             \* the trimmed caption before any corruption
    caption_tokens,
    masked_labels,
    tokens_to_mask,      \* the sampled positions
    todo,                \* sampled positions the Step 2 loop has not visited
    cur,                 \* loop variable of the Step 2 loop while substituting
    token_index,         \* local of _random_token_index
    nflag,               \* number of random.random() calls so far
    substitutes,         \* position -> token written by the substitution branch
    i,                   \* loop variable of the whole-word scan
    j,                   \* loop variable of the forward / backward walk
    pass,                \* 1 in __iter__; 2 while the scan is replayed
    snap_tokens,         \* caption_tokens at the end of the first scan
    snap_labels          \* masked_labels at the end of the first scan

vars == << pc, _mask_proportion, _mask_prob, _repl_prob, max_caption_length,
           caption, caption_tokens, masked_labels, tokens_to_mask, todo, cur,
           token_index, nflag, substitutes, i, j, pass, snap_tokens, snap_labels >>

params == << _mask_proportion, _mask_prob, _repl_prob, max_caption_length >>
lists == << caption_tokens, masked_labels >>
step2 == << tokens_to_mask, todo, cur, token_index, nflag, substitutes >>
replay == << pass, snap_tokens, snap_labels >>

Init ==
    /\ pc = "init"
    /\ _mask_proportion = 0
    /\ _mask_prob = 0
    /\ _repl_prob = 0
    /\ max_caption_length = 0
    /\ caption = EmptyList
    /\ caption_tokens = EmptyList
    /\ masked_labels = EmptyList
    /\ tokens_to_mask = {}
    /\ todo = {}
    /\ cur = 0
    /\ token_index = 0
    /\ nflag = 0
    /\ substitutes = EmptyList
    /\ i = 0
    /\ j = 0
    /\ pass = 1
    /\ snap_tokens = EmptyList
    /\ snap_labels = EmptyList

\* __init__ stores its arguments; it validates none of them.
Construct ==
    /\ pc = "init"
    /\ \E prop \in 1 .. PropDen, mp \in 0 .. ProbDen, rp \in 0 .. ProbDen,
          mcl \in 0 .. MaxCaption :
          /\ _mask_proportion' = prop
          /\ _mask_prob' = mp
          /\ _repl_prob' = rp
          /\ max_caption_length' = mcl
    /\ pc' = "ready"
    /\ UNCHANGED << caption, lists, step2, i, j, replay >>

\* One datapoint leaves the pipeline: trim the caption, allocate the labels.
Fetch ==
    /\ pc = "ready"
    /\ \E dp \in Datapoints :
          LET trimmed == Slice(dp, max_caption_length) IN
          /\ caption' = trimmed
          /\ caption_tokens' = trimmed
          /\ masked_labels' = [p \in DOMAIN trimmed |-> pad_index]
    /\ pc' = "sample"
    /\ UNCHANGED << params, step2, i, j, replay >>

\* math.ceil((len(caption_tokens) - 2) * self._mask_proportion)
SampleSize == Ceil((len(caption_tokens) - 2) * _mask_proportion, PropDen)

\* random.sample raises ValueError for a negative or too large sample size.
SampleRaises ==
    /\ pc = "sample"
    /\ \/ SampleSize < 0
       \/ SampleSize > Cardinality(Candidates(len(caption_tokens)))
    /\ pc' = "error"
    /\ UNCHANGED << params, caption, lists, step2, i, j, replay >>

Sample ==
    /\ pc = "sample"
    /\ SampleSize >= 0
    /\ \E S \in SUBSET Candidates(len(caption_tokens)) :
          /\ Cardinality(S) = SampleSize
          /\ tokens_to_mask' = S
          /\ todo' = S
    /\ pc' = "decide"
    /\ UNCHANGED << params, caption, lists, cur, token_index, nflag,
                    substitutes, i, j, replay >>

\* masked_labels[p] = caption_tokens[p]; caption_tokens[p] = mask_index
MaskAt(p) ==
    /\ masked_labels' = [masked_labels EXCEPT ![p] = caption_tokens[p]]
    /\ caption_tokens' = [caption_tokens EXCEPT ![p] = mask_index]

\* DecideSingle without the single-position special case.
DecideSingleDrawn ==
    /\ pc = "decide"
    /\ Cardinality(tokens_to_mask) = 1
    /\ \E p \in todo, _flag \in 0 .. (ProbDen - 1) :
          /\ IF _flag <= _mask_prob THEN MaskAt(p) ELSE UNCHANGED lists
          /\ todo' = todo \ {p}
    /\ nflag' = nflag + 1
    /\ UNCHANGED << pc, params, caption, tokens_to_mask, cur, token_index,
                    substitutes, i, j, replay >>

\* Step 2, a single sampled position: always [MASK], no draw.
DecideSingle ==
    /\ pc = "decide"
    /\ Cardinality(tokens_to_mask) = 1
    /\ \E p \in todo :
          /\ MaskAt(p)
          /\ todo' = todo \ {p}
    /\ UNCHANGED << pc, params, caption, tokens_to_mask, cur, token_index,
                    nflag, substitutes, i, j, replay >>

\* Step 2, several sampled positions: one random.random() per position.
DecideMask ==
    /\ pc = "decide"
    /\ Cardinality(tokens_to_mask) # 1
    /\ \E p \in todo, _flag \in 0 .. (ProbDen - 1) :
          /\ _flag <= _mask_prob + _repl_prob
          /\ _flag <= _mask_prob
          /\ MaskAt(p)
          /\ todo' = todo \ {p}
    /\ nflag' = nflag + 1
    /\ UNCHANGED << pc, params, caption, tokens_to_mask, cur, token_index,
                    substitutes, i, j, replay >>

DecideReplace ==
    /\ pc = "decide"
    /\ Cardinality(tokens_to_mask) # 1
    /\ \E p \in todo, _flag \in 0 .. (ProbDen - 1) :
          /\ _flag <= _mask_prob + _repl_prob
          /\ ~(_flag <= _mask_prob)
          /\ cur' = p
          /\ todo' = todo \ {p}
    /\ nflag' = nflag + 1
    /\ pc' = "draw"
    /\ UNCHANGED << params, caption, lists, tokens_to_mask, token_index,
                    substitutes, i, j, replay >>

DecideKeep ==
    /\ pc = "decide"
    /\ Cardinality(tokens_to_mask) # 1
    /\ \E p \in todo, _flag \in 0 .. (ProbDen - 1) :
          /\ ~(_flag <= _mask_prob + _repl_prob)
          /\ todo' = todo \ {p}
    /\ nflag' = nflag + 1
    /\ UNCHANGED << pc, params, caption, lists, tokens_to_mask, cur,
                    token_index, substitutes, i, j, replay >>

\* _random_token_index: token_index = random.randint(0, len(vocabulary) - 1)
DrawIndex ==
    /\ pc = "draw"
    /\ \E idx \in VocabIndices : token_index' = idx
    /\ pc' = "check"
    /\ UNCHANGED << params, caption, lists, tokens_to_mask, todo, cur, nflag,
                    substitutes, i, j, replay >>

\* Rejected letting the mask index through.
RejectedButMask(idx) == idx \in special_indices \ {mask_index}

\* Rejected refusing every index of the vocabulary.
RejectedAll(idx) == idx \in VocabIndices

Rejected(idx) == idx \in special_indices

\* ... a special index is drawn again
Redraw ==
    /\ pc = "check"
    /\ Rejected(token_index)
    /\ pc' = "draw"
    /\ UNCHANGED << params, caption, lists, step2, i, j, replay >>

\* Replace also recording the overwritten token as a label.
ReplaceLabelled ==
    /\ pc = "check"
    /\ ~Rejected(token_index)
    /\ caption_tokens' = [caption_tokens EXCEPT ![cur] = token_index]
    /\ masked_labels' = [masked_labels EXCEPT ![cur] = caption_tokens[cur]]
    /\ substitutes' = [p \in DOMAIN substitutes \cup {cur} |->
                          IF p = cur THEN token_index ELSE substitutes[p]]
    /\ token_index' = 0
    /\ cur' = 0
    /\ pc' = "decide"
    /\ UNCHANGED << params, caption, tokens_to_mask, todo, nflag, i, j, replay >>

\* ... any other index is returned and stored: caption_tokens[i] = <index>
Replace ==
    /\ pc = "check"
    /\ ~Rejected(token_index)
    /\ caption_tokens' = [caption_tokens EXCEPT ![cur] = token_index]
    /\ substitutes' = [p \in DOMAIN substitutes \cup {cur} |->
                          IF p = cur THEN token_index ELSE substitutes[p]]
    /\ token_index' = 0
    /\ cur' = 0
    /\ pc' = "decide"
    /\ UNCHANGED << params, caption, masked_labels, tokens_to_mask, todo,
                    nflag, i, j, replay >>

\* The Step 2 loop is exhausted: the whole-word scan starts.
StartScan ==
    /\ pc = "decide"
    /\ todo = {}
    /\ i' = 0
    /\ pc' = "scan"
    /\ UNCHANGED << params, caption, lists, step2, j, replay >>

\* for i in range(len(caption_tokens)): if caption_tokens[i] == mask_index
ScanMasked ==
    /\ pc = "scan"
    /\ i < len(caption_tokens)
    /\ caption_tokens[i] = mask_index
    /\ j' = i + 1
    /\ pc' = "forward"
    /\ UNCHANGED << params, caption, lists, step2, i, replay >>

ScanSkip ==
    /\ pc = "scan"
    /\ i < len(caption_tokens)
    /\ caption_tokens[i] # mask_index
    /\ i' = i + 1
    /\ UNCHANGED << pc, params, caption, lists, step2, j, replay >>

\* The forward walk stops at a token that starts a word or is special.
StopsForward(tt) == startswith(tt, SP_SPACE) \/ tt \in special_tokens

Forward ==
    /\ pc = "forward"
    /\ j < len(caption_tokens)
    /\ ~StopsForward(get_token_from_index(caption_tokens[j]))
    /\ MaskAt(j)
    /\ j' = j + 1
    /\ UNCHANGED << pc, params, caption, step2, i, replay >>

ForwardEnd ==
    /\ pc = "forward"
    /\ \/ j >= len(caption_tokens)
       \/ /\ j < len(caption_tokens)
          /\ StopsForward(get_token_from_index(caption_tokens[j]))
    /\ j' = 0
    /\ pc' = "before"
    /\ UNCHANGED << params, caption, lists, step2, i, replay >>

\* The backward walk is entered when the token masked at i is a word piece.
WalksBackward(t) == ~startswith(t, SP_SPACE) /\ t \notin special_tokens

BackwardStart ==
    /\ pc = "before"
    /\ WalksBackward(get_token_from_index(masked_labels[i]))
    /\ j' = i - 1
    /\ pc' = "backward"
    /\ UNCHANGED << params, caption, lists, step2, i, replay >>

BackwardSkip ==
    /\ pc = "before"
    /\ ~WalksBackward(get_token_from_index(masked_labels[i]))
    /\ i' = i + 1
    /\ pc' = "scan"
    /\ UNCHANGED << params, caption, lists, step2, j, replay >>

\* Backward leaving the walk after the first piece.
BackwardOnce ==
    /\ pc = "backward"
    /\ j >= 0
    /\ LET tt == get_token_from_index(caption_tokens[j]) IN
          /\ tt \notin special_tokens
          /\ ~startswith(tt, SP_SPACE)
    /\ MaskAt(j)
    /\ j' = 0
    /\ i' = i + 1
    /\ pc' = "scan"
    /\ UNCHANGED << params, caption, step2, replay >>

\* A piece that does not start a word: mask it and keep walking.
Backward ==
    /\ pc = "backward"
    /\ j >= 0
    /\ LET tt == get_token_from_index(caption_tokens[j]) IN
          /\ tt \notin special_tokens
          /\ ~startswith(tt, SP_SPACE)
    /\ MaskAt(j)
    /\ j' = j - 1
    /\ UNCHANGED << pc, params, caption, step2, i, replay >>

\* The piece that starts the word: mask it and stop.
BackwardWordStart ==
    /\ pc = "backward"
    /\ j >= 0
    /\ LET tt == get_token_from_index(caption_tokens[j]) IN
          /\ tt \notin special_tokens
          /\ startswith(tt, SP_SPACE)
    /\ MaskAt(j)
    /\ j' = 0
    /\ i' = i + 1
    /\ pc' = "scan"
    /\ UNCHANGED << params, caption, step2, replay >>

\* A special token, or the front of the list: stop without writing.
BackwardEnd ==
    /\ pc = "backward"
    /\ \/ j < 0
       \/ /\ j >= 0
          /\ get_token_from_index(caption_tokens[j]) \in special_tokens
    /\ j' = 0
    /\ i' = i + 1
    /\ pc' = "scan"
    /\ UNCHANGED << params, caption, lists, step2, replay >>

\* The scan is exhausted: the instance is yielded.
Yield ==
    /\ pc = "scan"
    /\ i >= len(caption_tokens)
    /\ i' = 0
    /\ pc' = "done"
    /\ UNCHANGED << params, caption, lists, step2, j, replay >>

ScanActions ==
    \/ ScanMasked
    \/ ScanSkip
    \/ Forward
    \/ ForwardEnd
    \/ BackwardStart
    \/ BackwardSkip
    \/ Backward
    \/ BackwardWordStart
    \/ BackwardEnd
    \/ Yield

Next ==
    \/ Construct
    \/ Fetch
    \/ SampleRaises
    \/ Sample
    \/ DecideSingle
    \/ DecideMask
    \/ DecideReplace
    \/ DecideKeep
    \/ DrawIndex
    \/ Redraw
    \/ Replace
    \/ StartScan
    \/ ScanActions

Spec == Init /\ [][Next]_vars

\* ------------------------------------------------------------------------
\* Fair random draws: an index that random.randint returns with positive
\* probability is eventually returned.
\* ------------------------------------------------------------------------
DrawOrdinary == DrawIndex /\ ~Rejected(token_index')

LiveSpec == Spec /\ WF_vars(Next) /\ SF_vars(DrawOrdinary)

\* ------------------------------------------------------------------------
\* The whole-word scan run a second time over the yielded lists.
\* ------------------------------------------------------------------------
Rescan ==
    /\ pc = "done"
    /\ pass = 1
    /\ pass' = 2
    /\ snap_tokens' = caption_tokens
    /\ snap_labels' = masked_labels
    /\ i' = 0
    /\ pc' = "scan"
    /\ UNCHANGED << params, caption, lists, step2, j >>

NextReplay ==
    \/ Next
    \/ Rescan

SpecReplay == Init /\ [][NextReplay]_vars

\* ------------------------------------------------------------------------
\* Properties.
\* ------------------------------------------------------------------------
Positions == DOMAIN caption_tokens

Last == len(caption_tokens) - 1

InCall == pc \notin {"init", "ready"}

Scanning == pc \in {"scan", "forward", "before", "backward"}

Walking == pc \in {"forward", "before", "backward"}

IsWordStart(idx) == startswith(get_token_from_index(idx), SP_SPACE)

IsPiece(idx) ==
    /\ ~startswith(get_token_from_index(idx), SP_SPACE)
    /\ get_token_from_index(idx) \notin special_tokens

\* p starts a word of the caption and q lies in that word.
SameWord(p, q) ==
    /\ p <= q
    /\ IsWordStart(caption[p])
    /\ \A r \in (p + 1) .. q : IsPiece(caption[r])

\* Positions that were not sampled and carry a label: written by a walk.
Expanded == { p \in Positions : p \notin tokens_to_mask /\ masked_labels[p] # pad_index }

\* C1: the first and the last position of the caption keep their token and
\* never receive a label, at any point of the call.
BoundaryUntouched ==
    (InCall /\ len(caption_tokens) >= 1) =>
        /\ caption_tokens[0] = caption[0]
        /\ caption_tokens[Last] = caption[Last]
        /\ masked_labels[0] = pad_index
        /\ masked_labels[Last] = pad_index

\* C2: whole-word completeness -- in the yielded lists, a word of the caption
\* has either all of its tokens equal to the mask index or none.
WholeWordComplete ==
    pc = "done" =>
        \A p \in Positions, q \in Positions :
            SameWord(p, q) =>
                (caption_tokens[p] = mask_index <=> caption_tokens[q] = mask_index)

\* C3: every label is the pad index or the token the caption held at that
\* position before the call.
LabelsAreOriginal ==
    \A p \in Positions :
        masked_labels[p] = pad_index \/ masked_labels[p] = caption[p]

\* C4: at every point of the call, a position that carries a label holds the
\* mask index.
LabelImpliesMask ==
    \A p \in Positions :
        masked_labels[p] # pad_index => caption_tokens[p] = mask_index

\* A yielded instance with a substituted, unlabelled token next to labels
\* written by Step 2 and by a walk.
LabelImpliesMaskWitness ==
    /\ pc = "done"
    /\ Expanded # {}
    /\ \E p \in DOMAIN substitutes :
          /\ caption_tokens[p] = substitutes[p]
          /\ caption_tokens[p] # caption[p]
    /\ \E p \in tokens_to_mask : masked_labels[p] # pad_index

\* C5: a caption of length 0, 1 or 2 raises no error, samples no position
\* and is yielded unchanged with pad labels only.
ShortCaptionIsNoOp ==
    (InCall /\ len(caption) <= 2) =>
        /\ pc # "error"
        /\ tokens_to_mask = {}
        /\ caption_tokens = caption
        /\ \A p \in Positions : masked_labels[p] = pad_index

\* C6: no planner exists, and no caption is processed, with
\* mask_probability + replace_probability > 1.
ConfigRejected ==
    pc # "init" => _mask_prob + _repl_prob <= ProbDen

\* C7: when exactly one position is sampled, Step 2 masks it, labels it with
\* the original token and calls random.random() not once.
ForcedMask ==
    (Cardinality(tokens_to_mask) = 1 /\ (Scanning \/ pc = "done")) =>
        /\ nflag = 0
        /\ \A p \in tokens_to_mask :
              /\ masked_labels[p] = caption[p]
              /\ caption[p] # pad_index
              /\ caption_tokens[p] = mask_index

\* One sampled position, mask_probability = 0, instance yielded.
ForcedMaskWitness ==
    /\ pc = "done"
    /\ Cardinality(tokens_to_mask) = 1
    /\ _mask_prob = 0
    /\ _repl_prob = 0

\* C8 as stated: a substituted position ends with a token different from the
\* original and without a label, the substitute is not the mask index, and
\* the scan starts no walk at it.
SubstitutionAsStated ==
    \A p \in DOMAIN substitutes :
        /\ substitutes[p] # mask_index
        /\ pc = "done" => (caption_tokens[p] # caption[p] /\ masked_labels[p] = pad_index)
        /\ ~(Walking /\ i = p)

\* A substituted position is either untouched since (substitute, no label)
\* or absorbed by a walk (mask index, labelled with the substitute).
SubstitutedState(p) ==
    \/ /\ caption_tokens[p] = substitutes[p]
       /\ masked_labels[p] = pad_index
    \/ /\ Scanning \/ pc = "done"
       /\ caption_tokens[p] = mask_index
       /\ masked_labels[p] = substitutes[p]

\* C8 (amended): the substitute is a non-special index, possibly the original
\* token; the position keeps it, unlabelled, unless a walk absorbs it, and a
\* walk the scan starts at the position itself writes nothing.
SubstitutionOutcome ==
    /\ [](\A p \in DOMAIN substitutes :
            /\ substitutes[p] \notin special_indices
            /\ SubstitutedState(p))
    /\ [][(Walking /\ pass = 1 /\ i \in DOMAIN substitutes) => UNCHANGED lists]_vars

\* A yielded instance in which one substitute equals the original token and
\* another substituted position was absorbed by a walk.
SubstitutionOutcomeWitness ==
    /\ pc = "done"
    /\ \E p \in DOMAIN substitutes :
          /\ caption_tokens[p] = caption[p]
          /\ masked_labels[p] = pad_index
    /\ \E p \in DOMAIN substitutes :
          /\ caption_tokens[p] = mask_index
          /\ masked_labels[p] = substitutes[p]

\* C9: under fair draws every call comes to an end -- the instance is
\* yielded, or random.sample has raised, which it only does for a caption of
\* fewer than two tokens.
CallTerminates ==
    /\ <>(pc \in {"done", "error"})
    /\ [](pc = "error" => len(caption) < 2)

\* An instance yielded after the rejection loop redrew and after both walks ran.
CallTerminatesWitness ==
    /\ pc = "done"
    /\ DOMAIN substitutes # {}
    /\ \E p \in Expanded : \E q \in tokens_to_mask : p < q
    /\ \E p \in Expanded : \E q \in tokens_to_mask : p > q

\* C10: a second run of the scan over the yielded lists changes no token and
\* no label.
ScanIdempotent ==
    pass = 2 => (caption_tokens = snap_tokens /\ masked_labels = snap_labels)

\* The second scan has finished over lists a backward walk had written to.
ScanIdempotentWitness ==
    /\ pass = 2
    /\ pc = "done"
    /\ \E p \in Expanded : \E q \in tokens_to_mask : p < q /\ IsPiece(masked_labels[q])

====
